---- MODULE Spec2Model ----
(***************************************************************************)
(* Model of the account/ledger core of Migmartshering_02240317_A3.py:      *)
(* SecureBankAccount (validated balance operations and the capped          *)
(* transaction log) and DigitalBank (the registry and its flat-file store). *)
(*                                                                         *)
(* Text (identifiers, codes, categories, phone numbers, the lines of       *)
(* bank_data.txt) is a sequence of one-character strings, so that          *)
(* formatting, strip(), split('|'), isdigit() and float() are computed.    *)
(* Amounts are whole currency units; str(float) of such an amount is its   *)
(* decimal digits followed by ".0".  NaN, infinities and binary rounding   *)
(* of fractional amounts are outside the modelled number domain.           *)
(***************************************************************************)
EXTENDS Integers, Sequences, FiniteSets, TLC

VARIABLES
    accounts,    \* DigitalBank.accounts: key -> SecureBankAccount fields
    key_order,   \* insertion order of the keys of DigitalBank.accounts
    file,        \* bank_data.txt: whether it exists, and its lines
    last,        \* the call that produced this state, its arguments and outcome
    pc           \* the call in progress and the line it is at; Idle between calls

vars == <<accounts, key_order, file, last, pc>>

----------------------------------------------------------------------------
(* Program constants *)

TxLimit == 100000        \* verify_transaction: amount > 100000
HistoryCap == 50         \* record_transaction: len(history) > 50
MinPhoneLen == 10        \* add_phone_credit: len(phone_number) < 10
MinFields == 5           \* load_account_data: len(parts) >= 5
IdLow == 100000          \* generate_account_id: randint(100000, 999999)
IdHigh == 999999
CodeLow == 1000          \* create_new_account: randint(1000, 9999)
CodeHigh == 9999

(* Bounds of the model *)

MaxHist == 2             \* Spec: an account method is called while fewer entries
                         \* than this were recorded since the load
MaxSession == 1          \* SpecRegistry: likewise, for the shell's handlers
MaxFunds == 50000        \* SpecRegistry: no deposit takes funds above this
MaxCredit == 50000       \* SpecRegistry: no top-up takes phone_credit above this
MaxLines == 2            \* SpecRegistry: lines of an initial bank_data.txt
NumIds == 1              \* candidates randint(100000, 999999) is drawn from
NumCodes == 1            \* candidates randint(1000, 9999) is drawn from
MaxLog == 52             \* SpecHistory: entries recorded on the account
MaxSpecial == 1          \* SpecHistory: top-ups and transfers among them
NumDraws == 2            \* SpecGenerate: candidates randint(100000, 999999) is
                         \* drawn from, one draw per step

----------------------------------------------------------------------------
(* Text *)

\* bank_data.txt: open(..., "r") raises FileNotFoundError iff ~exists
Missing == [exists |-> FALSE, lines |-> <<>>]
Stored(lines) == [exists |-> TRUE, lines |-> lines]
NoText == <<>>
NoneRef == <<"None">>    \* Python's None passed where an account is expected

Bar == "|"
Whitespace == {" ", "\t", "\n", "\r"}
DecimalDigits == <<"0", "1", "2", "3", "4", "5", "6", "7", "8", "9">>
DigitChars == {DecimalDigits[i] : i \in 1..10}

DigitValue(c) == (CHOOSE i \in 1..10 : DecimalDigits[i] = c) - 1

RECURSIVE IntStr(_)
\* str() of a non-negative integer
IntStr(n) ==
    IF n < 10 THEN <<DecimalDigits[n + 1]>>
    ELSE Append(IntStr(n \div 10), DecimalDigits[(n % 10) + 1])

\* str() of a float holding a whole, non-negative amount: "<digits>.0"
FloatStr(x) == IntStr(x) \o <<".", "0">>

RECURSIVE LStrip(_)
LStrip(s) ==
    IF s # <<>> /\ Head(s) \in Whitespace THEN LStrip(Tail(s)) ELSE s

RECURSIVE RStrip(_)
RStrip(s) ==
    IF s # <<>> /\ s[Len(s)] \in Whitespace
    THEN RStrip(SubSeq(s, 1, Len(s) - 1)) ELSE s

\* str.strip()
Strip(s) == RStrip(LStrip(s))

RECURSIVE SplitFrom(_, _, _)
SplitFrom(s, i, cur) ==
    IF i > Len(s) THEN <<cur>>
    ELSE IF s[i] = Bar THEN <<cur>> \o SplitFrom(s, i + 1, <<>>)
    ELSE SplitFrom(s, i + 1, Append(cur, s[i]))

\* str.split('|')
Split(s) == SplitFrom(s, 1, <<>>)

\* str.isdigit() over the modelled alphabet
IsDigit(s) == s # <<>> /\ \A i \in 1..Len(s) : s[i] \in DigitChars

RECURSIVE DigitsValue(_)
DigitsValue(s) ==
    IF s = <<>> THEN 0
    ELSE 10 * DigitsValue(SubSeq(s, 1, Len(s) - 1)) + DigitValue(s[Len(s)])

\* float(): surrounding whitespace is ignored; accepted here are the unsigned
\* literals "<digits>" and "<digits>.<zeros>"; any other text of the modelled
\* alphabet raises ValueError.
ParseFloat(s) ==
    LET t == Strip(s)
        dots == {i \in 1..Len(t) : t[i] = "."}
        whole == IF dots = {} THEN t
                 ELSE SubSeq(t, 1, (CHOOSE i \in dots : TRUE) - 1)
        frac == IF dots = {} THEN <<>>
                ELSE SubSeq(t, (CHOOSE i \in dots : TRUE) + 1, Len(t))
    IN  IF Cardinality(dots) <= 1 /\ IsDigit(whole)
           /\ \A i \in 1..Len(frac) : frac[i] = "0"
        THEN [ok |-> TRUE, val |-> DigitsValue(whole)]
        ELSE [ok |-> FALSE, val |-> 0]

----------------------------------------------------------------------------
(* SecureBankAccount *)

\* SecureBankAccount.__init__.  The field "recorded" is a history variable,
\* not a field of the program: every entry ever handed to record_transaction
\* on this object, in call order.
SecureBankAccount(account_id, access_code, category) ==
    [account_id |-> account_id, access_code |-> access_code,
     category |-> category, funds |-> 0, phone_credit |-> 0,
     transaction_history |-> <<>>, recorded |-> <<>>]

\* One log line; the f-string's text is kept as its parts.
Entry(kind, party, amount) == [kind |-> kind, party |-> party, amount |-> amount]

\* Mutant of verify_transaction: "amount < 0", so that zero is accepted.
verify_transaction_zero(amount) == ~(amount < 0 \/ amount > TxLimit)

\* TRUE iff verify_transaction(amount) returns instead of raising ValueError
verify_transaction(amount) == ~(amount <= 0 \/ amount > TxLimit)

\* Mutant of record_transaction: pop() evicts the newest entry, not the oldest.
record_transaction_newest(self, details) ==
    LET appended == Append(self.transaction_history, details)
    IN  [self EXCEPT
            !.transaction_history =
                IF Len(appended) > HistoryCap
                THEN SubSeq(appended, 1, Len(appended) - 1) ELSE appended,
            !.recorded = Append(@, details)]

\* record_transaction on the account object self
record_transaction(self, details) ==
    LET appended == Append(self.transaction_history, details)
    IN  [self EXCEPT
            !.transaction_history =
                IF Len(appended) > HistoryCap THEN Tail(appended) ELSE appended,
            !.recorded = Append(@, details)]

\* The account methods below take the object store accs (key -> object) and
\* the key of self, and give the store after the call with the exception
\* raised, if any.
Raised(accs, err) == [err |-> err, accounts |-> accs]
Returned(accs) == [err |-> "none", accounts |-> accs]

\* Mutant of add_funds: the amount is credited twice.
add_funds_doubled(accs, self, amount) ==
    IF ~verify_transaction(amount) THEN Raised(accs, "ValueError")
    ELSE Returned([accs EXCEPT ![self] =
            record_transaction([@ EXCEPT !.funds = @ + amount + amount],
                               Entry("Deposit", NoText, amount))])

add_funds(accs, self, amount) ==
    IF ~verify_transaction(amount) THEN Raised(accs, "ValueError")
    ELSE Returned([accs EXCEPT ![self] =
            record_transaction([@ EXCEPT !.funds = @ + amount],
                               Entry("Deposit", NoText, amount))])

\* Mutant of remove_funds: the check against the balance is missing.
remove_funds_overdraft(accs, self, amount) ==
    IF ~verify_transaction(amount) THEN Raised(accs, "ValueError")
    ELSE Returned([accs EXCEPT ![self] =
            record_transaction([@ EXCEPT !.funds = @ - amount],
                               Entry("Withdrawal", NoText, amount))])

\* Mutant of remove_funds: "amount >= self.funds" refuses the whole balance.
remove_funds_strict(accs, self, amount) ==
    IF ~verify_transaction(amount) THEN Raised(accs, "ValueError")
    ELSE IF amount >= accs[self].funds THEN Raised(accs, "ValueError")
    ELSE Returned([accs EXCEPT ![self] =
            record_transaction([@ EXCEPT !.funds = @ - amount],
                               Entry("Withdrawal", NoText, amount))])

remove_funds(accs, self, amount) ==
    IF ~verify_transaction(amount) THEN Raised(accs, "ValueError")
    ELSE IF amount > accs[self].funds THEN Raised(accs, "ValueError")
    ELSE Returned([accs EXCEPT ![self] =
            record_transaction([@ EXCEPT !.funds = @ - amount],
                               Entry("Withdrawal", NoText, amount))])

\* Mutant of send_money: recipient.add_funds(amount) is missing.
send_money_uncredited(accs, self, amount, recipient) ==
    LET w == remove_funds(accs, self, amount)
    IN  IF w.err # "none" THEN w
        ELSE IF recipient = NoneRef THEN Raised(w.accounts, "AttributeError")
        ELSE LET s == [w.accounts EXCEPT ![self] =
                         record_transaction(@,
                             Entry("Transfer to",
                                   w.accounts[recipient].account_id, amount))]
             IN  Returned([s EXCEPT ![recipient] =
                         record_transaction(@,
                             Entry("Transfer from", s[self].account_id, amount))])

\* recipient is a key of accs, or NoneRef: None has no add_funds attribute,
\* so line 38 raises AttributeError after line 37 has already run.
send_money(accs, self, amount, recipient) ==
    LET w == remove_funds(accs, self, amount)
    IN  IF w.err # "none" THEN w
        ELSE IF recipient = NoneRef THEN Raised(w.accounts, "AttributeError")
        ELSE LET d == add_funds(w.accounts, recipient, amount)
             IN  IF d.err # "none" THEN d
                 ELSE LET s == [d.accounts EXCEPT ![self] =
                                  record_transaction(@,
                                      Entry("Transfer to",
                                            d.accounts[recipient].account_id,
                                            amount))]
                      IN  Returned([s EXCEPT ![recipient] =
                                  record_transaction(@,
                                      Entry("Transfer from",
                                            s[self].account_id, amount))])

\* Mutant of add_phone_credit: "and" for "or" in the phone number check.
add_phone_credit_and(accs, self, amount, phone_number) ==
    IF Len(phone_number) < MinPhoneLen /\ ~IsDigit(phone_number)
    THEN Raised(accs, "ValueError")
    ELSE LET w == remove_funds(accs, self, amount)
         IN  IF w.err # "none" THEN w
             ELSE Returned([w.accounts EXCEPT ![self] =
                     record_transaction(
                         [@ EXCEPT !.phone_credit = @ + amount],
                         Entry("Mobile top-up", phone_number, amount))])

\* Mutant of add_phone_credit: "phone_credit -= amount".
add_phone_credit_spent(accs, self, amount, phone_number) ==
    IF Len(phone_number) < MinPhoneLen \/ ~IsDigit(phone_number)
    THEN Raised(accs, "ValueError")
    ELSE LET w == remove_funds(accs, self, amount)
         IN  IF w.err # "none" THEN w
             ELSE Returned([w.accounts EXCEPT ![self] =
                     record_transaction(
                         [@ EXCEPT !.phone_credit = @ - amount],
                         Entry("Mobile top-up", phone_number, amount))])

add_phone_credit(accs, self, amount, phone_number) ==
    IF Len(phone_number) < MinPhoneLen \/ ~IsDigit(phone_number)
    THEN Raised(accs, "ValueError")
    ELSE LET w == remove_funds(accs, self, amount)
         IN  IF w.err # "none" THEN w
             ELSE Returned([w.accounts EXCEPT ![self] =
                     record_transaction(
                         [@ EXCEPT !.phone_credit = @ + amount],
                         Entry("Mobile top-up", phone_number, amount))])

----------------------------------------------------------------------------
(* DigitalBank *)

EmptyDict == [k \in {} |-> NoText]

\* Mutant of DictSet: the value is stored under its access code.
DictSet_coded(accs, order, key, value) ==
    [accounts |-> (value.access_code :> value) @@ accs,
     key_order |-> IF value.access_code \in DOMAIN accs THEN order
                   ELSE Append(order, value.access_code)]

\* accounts[key] = value on an insertion-ordered dict
DictSet(accs, order, key, value) ==
    [accounts |-> (key :> value) @@ accs,
     key_order |-> IF key \in DOMAIN accs THEN order ELSE Append(order, key)]

\* Mutant of DictDel: accounts.clear() for del accounts[key].
DictDel_clear(accs, order, key) ==
    [accounts |-> EmptyDict, key_order |-> <<>>]

\* del accounts[key]
DictDel(accs, order, key) ==
    [accounts |-> [k \in DOMAIN accs \ {key} |-> accs[k]],
     key_order |-> SelectSeq(order, LAMBDA k : k # key)]

Personal == <<"P", "e", "r", "s", "o", "n", "a", "l">>
Business == <<"B", "u", "s", "i", "n", "e", "s", "s">>
Student == <<"S", "t", "u", "d", "e", "n", "t">>
valid_types == {Personal, Business, Student}

\* f"DB{n}"
AccountIdOf(n) == <<"D", "B">> \o IntStr(n)

\* Mutant of LoadLine: "len(parts) > 5" skips the lines of exactly 5 fields.
LoadLine_six(d, line) ==
    LET stripped == Strip(line)
        parts == Split(stripped)
    IN  IF stripped = <<>> THEN d
        ELSE IF ~(Len(parts) > MinFields) THEN d
        ELSE LET funds == ParseFloat(parts[4])
                 phone_credit == ParseFloat(parts[5])
             IN  IF ~funds.ok \/ ~phone_credit.ok
                 THEN [d EXCEPT !.err = "ValueError"]
                 ELSE LET acc == [SecureBankAccount(parts[1], parts[2], parts[3])
                                     EXCEPT !.funds = funds.val,
                                            !.phone_credit = phone_credit.val]
                          set == DictSet(d.accounts, d.key_order, parts[1], acc)
                      IN  [err |-> "none", accounts |-> set.accounts,
                           key_order |-> set.key_order]

\* The body of the for loop of load_account_data on one line; d is the dict
\* so far.  float() raising ValueError leaves the loop and the method.
LoadLine(d, line) ==
    LET stripped == Strip(line)
        parts == Split(stripped)
    IN  IF stripped = <<>> THEN d
        ELSE IF ~(Len(parts) >= MinFields) THEN d
        ELSE LET funds == ParseFloat(parts[4])
                 phone_credit == ParseFloat(parts[5])
             IN  IF ~funds.ok \/ ~phone_credit.ok
                 THEN [d EXCEPT !.err = "ValueError"]
                 ELSE LET acc == [SecureBankAccount(parts[1], parts[2], parts[3])
                                     EXCEPT !.funds = funds.val,
                                            !.phone_credit = phone_credit.val]
                          set == DictSet(d.accounts, d.key_order, parts[1], acc)
                      IN  [err |-> "none", accounts |-> set.accounts,
                           key_order |-> set.key_order]

RECURSIVE LoadLines(_, _, _)
LoadLines(d, lines, i) ==
    IF i > Len(lines) \/ d.err # "none" THEN d
    ELSE LoadLines(LoadLine(d, lines[i]), lines, i + 1)

\* load_account_data on the dict (accs, order) and the store f
load_account_data(accs, order, f) ==
    LET d == [err |-> "none", accounts |-> accs, key_order |-> order]
    IN  IF ~f.exists THEN d ELSE LoadLines(d, f.lines, 1)

\* Mutant of RecordLine: funds and phone_credit written in the other order.
RecordLine_swapped(account) ==
    account.account_id \o <<Bar>> \o account.access_code \o <<Bar>>
        \o account.category \o <<Bar>> \o FloatStr(account.phone_credit)
        \o <<Bar>> \o FloatStr(account.funds)

\* The line save_account_data writes for one account, without its newline
RecordLine(account) ==
    account.account_id \o <<Bar>> \o account.access_code \o <<Bar>>
        \o account.category \o <<Bar>> \o FloatStr(account.funds) \o <<Bar>>
        \o FloatStr(account.phone_credit)

\* Mutant of save_account_data: the last account of the dict is not written.
save_account_data_short(accs, order) ==
    Stored([i \in 1..(Len(order) - 1) |-> RecordLine(accs[order[i]])])

\* save_account_data: the file's new content
save_account_data(accs, order) ==
    Stored([i \in 1..Len(order) |-> RecordLine(accs[order[i]])])

----------------------------------------------------------------------------
(* Inputs *)

Half == TxLimit \div 2
Amounts == {0 - Half, 0, Half, TxLimit, TxLimit + 1}

PhoneOk == IntStr(1234567890)
PhoneShort == IntStr(123456789)
PhoneAlpha == IntStr(123456789) \o <<"a">>
PhonePlus == <<"+">> \o IntStr(1234567890)
Phones == {PhoneOk, PhoneShort, PhoneAlpha, PhonePlus, NoText}

\* the first candidates of randint(100000, 999999) and of randint(1000, 9999)
IdNumbers == {n \in IdLow..(IdLow + NumIds - 1) : n <= IdHigh}
CodeNumbers == {n \in CodeLow..(CodeLow + NumCodes - 1) : n <= CodeHigh}
Categories == valid_types \cup {<<"p", "e", "r", "s", "o", "n", "a", "l">>, NoText}
ClosableIds == {AccountIdOf(IdLow), AccountIdOf(IdLow + 1), <<"X">>}
\* the codes of the sample lines, one of them without its blanks, and no code
AccessCodes == {IntStr(CodeLow), IntStr(CodeHigh),
                <<" ">> \o IntStr(CodeHigh) \o <<" ">>, NoText}

Fields(a, b, c, d, e) ==
    a \o <<Bar>> \o b \o <<Bar>> \o c \o <<Bar>> \o d \o <<Bar>> \o e

LineGood1 == Fields(AccountIdOf(IdLow), IntStr(CodeLow), Personal,
                    FloatStr(Half), FloatStr(0))
\* surrounding whitespace, an integer literal, a sixth field
LineGood2 == <<" ">> \o Fields(AccountIdOf(IdLow + 1), IntStr(CodeHigh), Business,
                               IntStr(TxLimit + Half), FloatStr(Half))
                    \o <<Bar, "x", "\t">>
\* the key of LineGood1 again, with other values; blanks inside the fields
LineDup == Fields(AccountIdOf(IdLow), <<" ">> \o IntStr(CodeHigh) \o <<" ">>,
                  Student, FloatStr(TxLimit), <<" ", "0", " ">>)
LineBlank == <<" ", "\t">>
\* four fields
LineShort == AccountIdOf(IdLow + 1) \o <<Bar>> \o IntStr(CodeHigh) \o <<Bar>>
                 \o Business \o <<Bar>> \o FloatStr(Half)
\* five fields, the balance no number
LineBadNumber == Fields(AccountIdOf(IdLow + 1), IntStr(CodeLow), Student,
                        <<"a", "b", "c">>, FloatStr(0))
SampleLines == {LineGood1, LineGood2, LineDup, LineBlank, LineShort, LineBadNumber}

RECURSIVE SeqsUpTo(_, _)
SeqsUpTo(S, n) ==
    IF n = 0 THEN {<<>>}
    ELSE LET shorter == SeqsUpTo(S, n - 1)
         IN  shorter \cup {Append(q, x) : q \in shorter, x \in S}

InitialStores == {Missing} \cup {Stored(q) : q \in SeqsUpTo(SampleLines, MaxLines)}

----------------------------------------------------------------------------
(* Calls *)

\* last: the call that produced the state, its arguments, the exception it
\* raised ("none" when it returned) and the value it returned (FALSE when it
\* returns None).
Call(op, args, err, ret) == [op |-> op, args |-> args, err |-> err, ret |-> ret]

\* pc: the method in progress, the source line it is about to run, its
\* arguments, its local new_id, whether a candidate it drew was taken, and
\* the accounts as they were when it was called.
Frame(op, line, args, new_id, collided, entry) ==
    [op |-> op, line |-> line, args |-> args, new_id |-> new_id,
     collided |-> collided, entry |-> entry]

Idle == Frame("idle", 0, <<>>, NoText, FALSE, EmptyDict)

\* DigitalBank.__init__: a fresh registry, loaded from the store.  An exception
\* leaving the constructor leaves the program without a registry.
DigitalBankAt(f) ==
    LET d == load_account_data(EmptyDict, <<>>, f)
    IN  [accounts |-> d.accounts, key_order |-> d.key_order, file |-> f,
         last |-> Call("DigitalBank", <<>>, d.err, FALSE)]

DigitalBank ==
    LET b == DigitalBankAt(file)
    IN  /\ accounts' = b.accounts
        /\ key_order' = b.key_order
        /\ file' = b.file
        /\ last' = b.last
        /\ pc' = Idle

Running == last.op = "DigitalBank" => last.err = "none"

AddFundsCall(self, amount) ==
    LET r == add_funds(accounts, self, amount)
    IN  /\ Running
        /\ UNCHANGED pc
        /\ accounts' = r.accounts
        /\ UNCHANGED <<key_order, file>>
        /\ last' = Call("add_funds", <<self, amount>>, r.err, FALSE)

RemoveFundsCall(self, amount) ==
    LET r == remove_funds(accounts, self, amount)
    IN  /\ Running
        /\ UNCHANGED pc
        /\ accounts' = r.accounts
        /\ UNCHANGED <<key_order, file>>
        /\ last' = Call("remove_funds", <<self, amount>>, r.err, FALSE)

SendMoneyCall(self, amount, recipient) ==
    LET r == send_money(accounts, self, amount, recipient)
    IN  /\ Running
        /\ UNCHANGED pc
        /\ accounts' = r.accounts
        /\ UNCHANGED <<key_order, file>>
        /\ last' = Call("send_money", <<self, amount, recipient>>, r.err, FALSE)

AddPhoneCreditCall(self, amount, phone_number) ==
    LET r == add_phone_credit(accounts, self, amount, phone_number)
    IN  /\ Running
        /\ UNCHANGED pc
        /\ accounts' = r.accounts
        /\ UNCHANGED <<key_order, file>>
        /\ last' = Call("add_phone_credit", <<self, amount, phone_number>>,
                        r.err, FALSE)

\* Mutant of generate_account_id: the candidate drawn is returned unchecked.
generate_account_id_unchecked(accs) ==
    {AccountIdOf(n) : n \in IdNumbers}

\* The identifiers generate_account_id can return: a candidate f"DB{n}" that
\* is not a key of the registry (the loop retries until it draws one).
generate_account_id(accs) ==
    {AccountIdOf(n) : n \in IdNumbers} \ DOMAIN accs

create_new_account(account_type) ==
    /\ Running
    /\ UNCHANGED pc
    /\ IF account_type \notin valid_types
       THEN /\ UNCHANGED <<accounts, key_order, file>>
            /\ last' = Call("create_new_account", <<account_type>>,
                            "ValueError", FALSE)
       ELSE \E new_id \in generate_account_id(accounts), code \in CodeNumbers :
              LET access_code == IntStr(code)
                  new_account == SecureBankAccount(new_id, access_code, account_type)
                  set == DictSet(accounts, key_order, new_id, new_account)
              IN  /\ accounts' = set.accounts
                  /\ key_order' = set.key_order
                  /\ file' = save_account_data(set.accounts, set.key_order)
                  /\ last' = Call("create_new_account", <<account_type>>, "none",
                                  <<new_id, access_code>>)

close_account(account_id) ==
    /\ Running
    /\ UNCHANGED pc
    /\ IF account_id \in DOMAIN accounts
       THEN LET del == DictDel(accounts, key_order, account_id)
            IN  /\ accounts' = del.accounts
                /\ key_order' = del.key_order
                /\ file' = save_account_data(del.accounts, del.key_order)
                /\ last' = Call("close_account", <<account_id>>, "none", TRUE)
       ELSE /\ UNCHANGED <<accounts, key_order, file>>
            /\ last' = Call("close_account", <<account_id>>, "none", FALSE)

\* Mutant of authenticate: the access code is not compared.
authenticate_any(accs, account_id, access_code) ==
    IF account_id \in DOMAIN accs THEN {accs[account_id]} ELSE {}

\* What authenticate returns: the set of the account it returns, empty when
\* it returns None.  accounts.get(account_id) is None for an absent key, and a
\* SecureBankAccount is always truthy.
authenticate(accs, account_id, access_code) ==
    IF account_id \in DOMAIN accs /\ accs[account_id].access_code = access_code
    THEN {accs[account_id]}
    ELSE {}

AuthenticateCall(account_id, access_code) ==
    /\ Running
    /\ UNCHANGED pc
    /\ UNCHANGED <<accounts, key_order, file>>
    /\ last' = Call("authenticate", <<account_id, access_code>>, "none",
                    authenticate(accounts, account_id, access_code))

SaveAccountData ==
    /\ Running
    /\ UNCHANGED pc
    /\ file' = save_account_data(accounts, key_order)
    /\ UNCHANGED <<accounts, key_order>>
    /\ last' = Call("save_account_data", <<>>, "none", FALSE)

\* BankingInterface.deposit_funds with current_user the account under self:
\* a falsy amount does nothing; a ValueError is shown, not propagated.
deposit_funds(self, amount) ==
    LET r == add_funds(accounts, self, amount)
    IN  /\ Running
        /\ UNCHANGED pc
        /\ UNCHANGED key_order
        /\ IF amount = 0
           THEN UNCHANGED <<accounts, file>>
                /\ last' = Call("deposit_funds", <<self, amount>>, "none", FALSE)
           ELSE /\ accounts' = r.accounts
                /\ file' = IF r.err = "none"
                           THEN save_account_data(r.accounts, key_order) ELSE file
                /\ last' = Call("deposit_funds", <<self, amount>>, "none", FALSE)

\* BankingInterface.withdraw_funds, likewise
withdraw_funds(self, amount) ==
    LET r == remove_funds(accounts, self, amount)
    IN  /\ Running
        /\ UNCHANGED pc
        /\ UNCHANGED key_order
        /\ IF amount = 0
           THEN UNCHANGED <<accounts, file>>
                /\ last' = Call("withdraw_funds", <<self, amount>>, "none", FALSE)
           ELSE /\ accounts' = r.accounts
                /\ file' = IF r.err = "none"
                           THEN save_account_data(r.accounts, key_order) ELSE file
                /\ last' = Call("withdraw_funds", <<self, amount>>, "none", FALSE)

\* BankingInterface.transfer_funds: an empty or unknown recipient_id is
\* refused before the amount is asked for; only ValueError is caught.
transfer_funds(self, recipient_id, amount) ==
    /\ Running
    /\ UNCHANGED pc
    /\ UNCHANGED key_order
    /\ IF recipient_id = NoText \/ recipient_id \notin DOMAIN accounts \/ amount = 0
       THEN UNCHANGED <<accounts, file>>
            /\ last' = Call("transfer_funds", <<self, recipient_id, amount>>,
                            "none", FALSE)
       ELSE LET r == send_money(accounts, self, amount, recipient_id)
            IN  /\ accounts' = r.accounts
                /\ file' = IF r.err = "none"
                           THEN save_account_data(r.accounts, key_order) ELSE file
                /\ last' = Call("transfer_funds", <<self, recipient_id, amount>>,
                                IF r.err = "ValueError" THEN "none" ELSE r.err,
                                FALSE)

\* BankingInterface.remove_account: askyesno, then
\* close_account(current_user.account_id) and the welcome screen.
remove_account(self, yes) ==
    LET account_id == accounts[self].account_id
        del == DictDel(accounts, key_order, account_id)
    IN  /\ Running
        /\ UNCHANGED pc
        /\ IF yes /\ account_id \in DOMAIN accounts
           THEN /\ accounts' = del.accounts
                /\ key_order' = del.key_order
                /\ file' = save_account_data(del.accounts, del.key_order)
           ELSE UNCHANGED <<accounts, key_order, file>>
        /\ last' = Call("remove_account", <<self, yes>>, "none", FALSE)

\* BankingInterface.mobile_services, likewise; phone is falsy when empty.
mobile_services(self, amount, phone) ==
    LET r == add_phone_credit(accounts, self, amount, phone)
    IN  /\ Running
        /\ UNCHANGED pc
        /\ UNCHANGED key_order
        /\ IF amount = 0 \/ phone = NoText
           THEN UNCHANGED <<accounts, file>>
                /\ last' = Call("mobile_services", <<self, amount, phone>>, "none", FALSE)
           ELSE /\ accounts' = r.accounts
                /\ file' = IF r.err = "none"
                           THEN save_account_data(r.accounts, key_order) ELSE file
                /\ last' = Call("mobile_services", <<self, amount, phone>>, "none", FALSE)

----------------------------------------------------------------------------
(* Spec: the account methods, called on the accounts of a loaded registry *)

InitAt(stores) ==
    \E f \in stores :
        LET b == DigitalBankAt(f)
        IN  /\ file = b.file
            /\ accounts = b.accounts
            /\ key_order = b.key_order
            /\ last = b.last
            /\ pc = Idle

RECURSIVE TotalRecorded(_, _)
TotalRecorded(accs, order) ==
    IF order = <<>> THEN 0
    ELSE Len(accs[Head(order)].recorded) + TotalRecorded(accs, Tail(order))

CanCall == TotalRecorded(accounts, key_order) < MaxHist

AccountStores ==
    {Stored(<<LineGood1, LineGood2>>), Stored(<<LineGood2, LineDup>>),
     Stored(<<LineGood2>>)}

Init == InitAt(AccountStores)

Deposit ==
    \E self \in DOMAIN accounts, amount \in Amounts :
        CanCall /\ AddFundsCall(self, amount)

Withdraw ==
    \E self \in DOMAIN accounts, amount \in Amounts :
        CanCall /\ RemoveFundsCall(self, amount)

Transfer ==
    \E self \in DOMAIN accounts, amount \in Amounts,
       recipient \in DOMAIN accounts \cup {NoneRef} :
        CanCall /\ SendMoneyCall(self, amount, recipient)

TopUp ==
    \E self \in DOMAIN accounts, amount \in Amounts, phone_number \in Phones :
        CanCall /\ AddPhoneCreditCall(self, amount, phone_number)

Next == Deposit \/ Withdraw \/ Transfer \/ TopUp

Spec == Init /\ [][Next]_vars

----------------------------------------------------------------------------
(* SpecRegistry: the registry and its store *)

InitRegistry == InitAt(InitialStores)

InSession == TotalRecorded(accounts, key_order) < MaxSession

Bounded(self) ==
    accounts[self].funds <= MaxFunds /\ accounts[self].phone_credit <= MaxCredit

CreateNewAccount == \E account_type \in Categories : create_new_account(account_type)

CloseAccount == \E account_id \in ClosableIds : close_account(account_id)

DepositFunds ==
    \E self \in DOMAIN accounts, amount \in {0, Half, TxLimit + 1} :
        InSession /\ deposit_funds(self, amount) /\ Bounded(self)'

MobileServices ==
    \E self \in DOMAIN accounts, amount \in {0, Half},
       phone \in {PhoneOk, PhoneShort, NoText} :
        InSession /\ mobile_services(self, amount, phone) /\ Bounded(self)'

NextRegistry ==
    \/ CreateNewAccount
    \/ CloseAccount
    \/ SaveAccountData
    \/ DigitalBank
    \/ DepositFunds
    \/ MobileServices

SpecRegistry == InitRegistry /\ [][NextRegistry]_vars

----------------------------------------------------------------------------
(* SpecLogin: logins against a registry whose accounts come and go *)

Authenticate ==
    \E account_id \in ClosableIds, access_code \in AccessCodes :
        AuthenticateCall(account_id, access_code)

NextLogin == Authenticate \/ CreateNewAccount \/ CloseAccount

SpecLogin == InitRegistry /\ [][NextLogin]_vars

----------------------------------------------------------------------------
(* SpecShell: one run of the shell over a registry, every handler saving *)

ShellStores == {Missing, Stored(<<LineGood1, LineGood2>>)}

InitShell == InitAt(ShellStores)

WithdrawFunds ==
    \E self \in DOMAIN accounts, amount \in {0, Half, TxLimit + 1} :
        InSession /\ withdraw_funds(self, amount)

TransferFunds ==
    \E self \in DOMAIN accounts, recipient_id \in ClosableIds \cup {NoText},
       amount \in {0, Half, TxLimit + 1} :
        /\ InSession
        /\ transfer_funds(self, recipient_id, amount)
        /\ recipient_id \in DOMAIN accounts => Bounded(recipient_id)'

RemoveAccount ==
    \E self \in DOMAIN accounts, yes \in BOOLEAN : remove_account(self, yes)

NextShell ==
    \/ CreateNewAccount
    \/ CloseAccount
    \/ DepositFunds
    \/ WithdrawFunds
    \/ TransferFunds
    \/ MobileServices
    \/ RemoveAccount

SpecShell == InitShell /\ [][NextShell]_vars

----------------------------------------------------------------------------
(* SpecTransfer: send_money, one statement of its body at a time *)

\* line 37, self.remove_funds(amount): an exception leaves send_money
SendMoneyDebit(self, amount, recipient) ==
    LET r == remove_funds(accounts, self, amount)
    IN  /\ Running
        /\ pc = Idle
        /\ accounts' = r.accounts
        /\ UNCHANGED <<key_order, file>>
        /\ IF r.err # "none"
           THEN /\ pc' = Idle
                /\ last' = Call("send_money", <<self, amount, recipient>>,
                                r.err, FALSE)
           ELSE /\ pc' = Frame("send_money", 38, <<self, amount, recipient>>,
                               NoText, FALSE, accounts)
                /\ last' = Call("remove_funds", <<self, amount>>, "none", FALSE)

\* line 38, recipient.add_funds(amount)
SendMoneyCredit ==
    /\ pc.op = "send_money" /\ pc.line = 38
    /\ LET self == pc.args[1]
           amount == pc.args[2]
           recipient == pc.args[3]
           r == IF recipient = NoneRef THEN Raised(accounts, "AttributeError")
                ELSE add_funds(accounts, recipient, amount)
       IN  /\ accounts' = r.accounts
           /\ UNCHANGED <<key_order, file>>
           /\ IF r.err # "none"
              THEN /\ pc' = Idle
                   /\ last' = Call("send_money", pc.args, r.err, FALSE)
              ELSE /\ pc' = [pc EXCEPT !.line = 39]
                   /\ last' = Call("add_funds", <<recipient, amount>>, "none",
                                   FALSE)

\* line 39, self.record_transaction(f"Transfer to {recipient.account_id}: ...")
SendMoneyRecordTo ==
    /\ pc.op = "send_money" /\ pc.line = 39
    /\ LET self == pc.args[1]
           amount == pc.args[2]
           recipient == pc.args[3]
           details == Entry("Transfer to", accounts[recipient].account_id, amount)
       IN  /\ accounts' = [accounts EXCEPT
                               ![self] = record_transaction(@, details)]
           /\ UNCHANGED <<key_order, file>>
           /\ pc' = [pc EXCEPT !.line = 40]
           /\ last' = Call("record_transaction", <<self, details>>, "none", FALSE)

\* Mutant of SendMoneyRecordFrom: the entry is recorded on self.
SendMoneyRecordFrom_self ==
    /\ pc.op = "send_money" /\ pc.line = 40
    /\ LET self == pc.args[1]
           amount == pc.args[2]
           details == Entry("Transfer from", accounts[self].account_id, amount)
       IN  /\ accounts' = [accounts EXCEPT
                               ![self] = record_transaction(@, details)]
           /\ UNCHANGED <<key_order, file>>
           /\ pc' = Idle
           /\ last' = Call("send_money", pc.args, "none", FALSE)

\* line 40, recipient.record_transaction(f"Transfer from {self.account_id}: ...")
\* and the return
SendMoneyRecordFrom ==
    /\ pc.op = "send_money" /\ pc.line = 40
    /\ LET self == pc.args[1]
           amount == pc.args[2]
           recipient == pc.args[3]
           details == Entry("Transfer from", accounts[self].account_id, amount)
       IN  /\ accounts' = [accounts EXCEPT
                               ![recipient] = record_transaction(@, details)]
           /\ UNCHANGED <<key_order, file>>
           /\ pc' = Idle
           /\ last' = Call("send_money", pc.args, "none", FALSE)

TransferBegin ==
    \E self \in DOMAIN accounts, amount \in Amounts,
       recipient \in DOMAIN accounts \cup {NoneRef} :
        CanCall /\ SendMoneyDebit(self, amount, recipient)

DepositBetween ==
    \E self \in DOMAIN accounts, amount \in Amounts :
        CanCall /\ pc = Idle /\ AddFundsCall(self, amount)

NextTransfer ==
    \/ TransferBegin
    \/ SendMoneyCredit
    \/ SendMoneyRecordTo
    \/ SendMoneyRecordFrom
    \/ DepositBetween

SpecTransfer == Init /\ [][NextTransfer]_vars

----------------------------------------------------------------------------
(* SpecGenerate: create_new_account with the loop of generate_account_id,  *)
(* one iteration at a time                                                 *)

Candidates == {n \in IdLow..(IdLow + NumDraws - 1) : n <= IdHigh}

GenerateStores ==
    {Missing, Stored(<<LineGood1>>), Stored(<<LineGood2>>),
     Stored(<<LineGood1, LineGood2>>)}

InitGenerate == InitAt(GenerateStores)

\* Mutant of Taken: "if True: return new_id".
Taken_never(accs, new_id) == FALSE

\* line 73, negated: new_id in self.accounts
Taken(accs, new_id) == new_id \in DOMAIN accs

\* create_new_account, lines 78-82: the check of the type, then the call of
\* generate_account_id
CreateBegin(account_type) ==
    /\ Running
    /\ pc = Idle
    /\ UNCHANGED <<accounts, key_order, file>>
    /\ IF account_type \notin valid_types
       THEN /\ pc' = Idle
            /\ last' = Call("create_new_account", <<account_type>>,
                            "ValueError", FALSE)
       ELSE /\ pc' = Frame("generate_account_id", 71, <<account_type>>, NoText,
                           FALSE, accounts)
            /\ UNCHANGED last

\* generate_account_id, lines 71-74: one iteration of "while True" that
\* draws n; it returns new_id to line 82, or goes round again.
GenerateDraw(n) ==
    /\ pc.op = "generate_account_id"
    /\ UNCHANGED <<accounts, key_order, file>>
    /\ LET new_id == AccountIdOf(n)
       IN  IF Taken(accounts, new_id)
           THEN /\ pc' = [pc EXCEPT !.new_id = new_id, !.collided = TRUE]
                /\ UNCHANGED last
           ELSE /\ pc' = Frame("create_new_account", 83, pc.args, new_id,
                               pc.collided, pc.entry)
                /\ last' = Call("generate_account_id", <<>>, "none", new_id)

\* create_new_account, lines 83-87, with the identifier the loop returned
CreateFinish(code) ==
    /\ pc.op = "create_new_account" /\ pc.line = 83
    /\ LET account_type == pc.args[1]
           access_code == IntStr(code)
           new_account == SecureBankAccount(pc.new_id, access_code, account_type)
           set == DictSet(accounts, key_order, pc.new_id, new_account)
       IN  /\ accounts' = set.accounts
           /\ key_order' = set.key_order
           /\ file' = save_account_data(set.accounts, set.key_order)
           /\ pc' = Idle
           /\ last' = Call("create_new_account", <<account_type>>, "none",
                           <<pc.new_id, access_code>>)

CreateStart == \E account_type \in Categories : CreateBegin(account_type)

DrawCandidate == \E n \in Candidates : GenerateDraw(n)

CreateEnd == \E code \in CodeNumbers : CreateFinish(code)

CloseBetween ==
    \E account_id \in ClosableIds : pc = Idle /\ close_account(account_id)

NextGenerate == CreateStart \/ DrawCandidate \/ CreateEnd \/ CloseBetween

\* random.randint draws every candidate again and again: a draw that stays
\* possible is eventually made.
FairDraws == \A n \in Candidates : WF_vars(GenerateDraw(n))

SpecGenerate == InitGenerate /\ [][NextGenerate]_vars /\ FairDraws

----------------------------------------------------------------------------
(* SpecHistory: one account driven past the cap of its transaction log *)

InitHistory == InitAt({Stored(<<LineGood1>>)})

Special(entry) == entry.kind \in {"Mobile top-up", "Transfer to"}

BoundedHistory ==
    \A k \in DOMAIN accounts :
        /\ accounts[k].funds <= Half
        /\ Len(accounts[k].recorded) <= MaxLog
        /\ Len(SelectSeq(accounts[k].recorded, Special)) <= MaxSpecial

HistoryDeposit == AddFundsCall(key_order[1], Half) /\ BoundedHistory'

HistoryWithdraw == RemoveFundsCall(key_order[1], Half) /\ BoundedHistory'

HistoryTransfer ==
    SendMoneyCall(key_order[1], Half, key_order[1]) /\ BoundedHistory'

HistoryTopUp == AddPhoneCreditCall(key_order[1], Half, PhoneOk) /\ BoundedHistory'

NextHistory == HistoryDeposit \/ HistoryWithdraw \/ HistoryTransfer \/ HistoryTopUp

SpecHistory == InitHistory /\ [][NextHistory]_vars

----------------------------------------------------------------------------
(* Claims about the account methods (Spec) *)

ValidAmount(amount) == 0 < amount /\ amount <= TxLimit

\* What one more recorded entry makes of a transaction log
Logged(history, entry) ==
    IF Len(history) < HistoryCap THEN Append(history, entry)
    ELSE Append(Tail(history), entry)

\* C1 (as claimed): send_money(amount, None) raises ValueError for every
\* amount and leaves the sender's balance and transaction history unchanged.
C1_NoneRecipientRaisesValueError ==
    [][(last'.op = "send_money" /\ last'.args[3] = NoneRef) =>
          LET self == last'.args[1]
          IN  /\ last'.err = "ValueError"
              /\ accounts'[self].funds = accounts[self].funds
              /\ accounts'[self].transaction_history
                    = accounts[self].transaction_history]_vars

\* C2 (as claimed): send_money(a, recipient) from an account with balance X
\* to another account with balance Y yields (X - a, Y + a) when 0 < a <= X;
\* in every other case it raises and leaves both accounts unchanged.
C2_TransferAsClaimed ==
    [][(last'.op = "send_money" /\ last'.args[3] # NoneRef
                               /\ last'.args[3] # last'.args[1]) =>
              LET self == last'.args[1]
                  amount == last'.args[2]
                  recipient == last'.args[3]
                  X == accounts[self].funds
                  Y == accounts[recipient].funds
              IN  IF 0 < amount /\ amount <= X
                  THEN /\ last'.err = "none"
                       /\ accounts'[self].funds = X - amount
                       /\ accounts'[recipient].funds = Y + amount
                  ELSE /\ last'.err # "none"
                       /\ accounts' = accounts]_vars

\* C2 (amended): for a sender with balance X and a different recipient
\* account with balance Y, send_money(a, recipient) yields (X - a, Y + a) when
\* 0 < a <= X and a <= 100000; in every other case, the recipient being the
\* sender included, it raises and changes no account, nor the registry or
\* the store.
C2_Transfer ==
    [][(last'.op = "send_money" /\ last'.args[3] # NoneRef) =>
              LET self == last'.args[1]
                  amount == last'.args[2]
                  recipient == last'.args[3]
                  X == accounts[self].funds
                  Y == accounts[recipient].funds
              IN  IF 0 < amount /\ amount <= X /\ amount <= TxLimit
                  THEN /\ last'.err = "none"
                       /\ self # recipient =>
                             /\ accounts'[self].funds = X - amount
                             /\ accounts'[recipient].funds = Y + amount
                  ELSE /\ last'.err = "ValueError"
                       /\ accounts' = accounts
                       /\ UNCHANGED <<key_order, file>>]_vars

\* C2 witness: a transfer between two different accounts has succeeded.
C2_Witness ==
    /\ last.op = "send_money" /\ last.err = "none"
    /\ last.args[1] # last.args[3]
    /\ \E k \in DOMAIN accounts :
          LET r == accounts[k].recorded
          IN  /\ r # <<>>
              /\ r[Len(r)].kind = "Transfer from"
              /\ r[Len(r)].party # accounts[k].account_id

\* C3: whatever deposits, withdrawals, transfers and top-ups were called,
\* successfully or not, on accounts that started with a non-negative
\* balance, every account's balance is >= 0.
C3_BalanceNonNegative == \A k \in DOMAIN accounts : accounts[k].funds >= 0

\* C3 witness: a withdrawal has taken an account's whole balance.
C3_Witness ==
    /\ last.op = "remove_funds" /\ last.err = "none"
    /\ \E k \in DOMAIN accounts :
          /\ accounts[k].funds = 0
          /\ accounts[k].recorded # <<>>
          /\ accounts[k].recorded[Len(accounts[k].recorded)].kind = "Withdrawal"

\* C4: add_funds(a) with 0 < a <= 100000 increases the balance by exactly a
\* and appends exactly one log entry; with a <= 0 or a > 100000 it raises
\* ValueError and changes nothing.
C4_Deposit ==
    [][last'.op = "add_funds" =>
          LET self == last'.args[1]
              amount == last'.args[2]
          IN  IF 0 < amount /\ amount <= TxLimit
              THEN /\ last'.err = "none"
                   /\ accounts'[self].funds = accounts[self].funds + amount
                   /\ accounts'[self].transaction_history
                        = Logged(accounts[self].transaction_history,
                                 Entry("Deposit", NoText, amount))
                   /\ accounts'[self].phone_credit = accounts[self].phone_credit
                   /\ \A k \in DOMAIN accounts \ {self} : accounts'[k] = accounts[k]
              ELSE /\ last'.err = "ValueError"
                   /\ accounts' = accounts]_vars

\* C4 witness: a deposit has succeeded.
C4_Witness ==
    /\ last.op = "add_funds" /\ last.err = "none"
    /\ \E k \in DOMAIN accounts :
          LET r == accounts[k].recorded
          IN  r # <<>> /\ r[Len(r)].kind = "Deposit" /\ accounts[k].funds >= r[Len(r)].amount

\* C5 (as claimed): for a > balance, remove_funds(a) raises and leaves the
\* balance unchanged; for 0 < a <= balance it decreases the balance by a.
C5_WithdrawAsClaimed ==
    [][last'.op = "remove_funds" =>
          LET self == last'.args[1]
              amount == last'.args[2]
          IN  /\ amount > accounts[self].funds =>
                    last'.err # "none"
                    /\ accounts'[self].funds = accounts[self].funds
              /\ (0 < amount /\ amount <= accounts[self].funds) =>
                    last'.err = "none"
                    /\ accounts'[self].funds = accounts[self].funds - amount]_vars

\* C5 (amended): for a > balance, remove_funds(a) raises and leaves the
\* balance unchanged; for 0 < a <= balance with a <= 100000 it decreases the
\* balance by exactly a; for a > 100000 it raises and leaves the balance
\* unchanged whatever the balance.
C5_Withdraw ==
    [][last'.op = "remove_funds" =>
          LET self == last'.args[1]
              amount == last'.args[2]
          IN  /\ (amount > accounts[self].funds \/ amount > TxLimit) =>
                    last'.err = "ValueError"
                    /\ accounts' = accounts
              /\ (0 < amount /\ amount <= accounts[self].funds
                            /\ amount <= TxLimit) =>
                    last'.err = "none"
                    /\ accounts'[self].funds = accounts[self].funds - amount]_vars

\* C5 witness: a withdrawal of more than the transaction limit was refused on
\* an account whose balance covers it.
C5_Witness ==
    /\ last.op = "remove_funds" /\ last.err = "ValueError"
    /\ last.args[2] > TxLimit
    /\ last.args[2] <= accounts[last.args[1]].funds

----------------------------------------------------------------------------
(* Claim about the transaction log (SpecHistory) *)

\* The n newest elements of s, oldest first
Newest(s, n) == IF Len(s) <= n THEN s ELSE SubSeq(s, Len(s) - n + 1, Len(s))

\* C7: an account's transaction history never holds more than 50 entries and
\* is always the most recent (at most 50) entries recorded on the account, in
\* the order they were recorded; after 51 entries the first one is gone.
C7_HistoryCappedFifo ==
    \A k \in DOMAIN accounts :
        /\ Len(accounts[k].transaction_history) <= HistoryCap
        /\ accounts[k].transaction_history = Newest(accounts[k].recorded, HistoryCap)

\* C7 witness: 51 entries were recorded, the second of them the one top-up
\* entry, which is now the oldest of the 50 entries of the history: the first
\* entry recorded is gone.
C7_Witness ==
    \E k \in DOMAIN accounts :
        LET r == accounts[k].recorded
            h == accounts[k].transaction_history
        IN  /\ Len(r) = HistoryCap + 1
            /\ r[2].kind = "Mobile top-up"
            /\ Len(h) = HistoryCap
            /\ h[1] = r[2]
            /\ \A i \in 2..Len(h) : h[i].kind # "Mobile top-up"

----------------------------------------------------------------------------
(* Claims about the registry and its store (SpecRegistry) *)

\* C8: close_account(id) on an identifier that is no key of the registry
\* returns False and leaves the registry and the store unchanged; on a key it
\* removes exactly that entry, leaves every other account unchanged and
\* returns True.
C8_CloseAccount ==
    [][last'.op = "close_account" =>
          LET account_id == last'.args[1]
          IN  IF account_id \in DOMAIN accounts
              THEN /\ last'.ret = TRUE
                   /\ DOMAIN accounts' = DOMAIN accounts \ {account_id}
                   /\ \A k \in DOMAIN accounts' : accounts'[k] = accounts[k]
              ELSE /\ last'.ret = FALSE
                   /\ accounts' = accounts
                   /\ key_order' = key_order
                   /\ file' = file]_vars

\* C8 witness: one of two accounts was closed and the other is still there.
C8_Witness ==
    /\ last.op = "close_account"
    /\ last.ret = TRUE
    /\ Cardinality(DOMAIN accounts) = 1

\* The persisted fields of an account
Tuple(account) ==
    <<account.account_id, account.access_code, account.category,
      account.funds, account.phone_credit>>

Tuples(accs) == {Tuple(accs[k]) : k \in DOMAIN accs}

\* C9: for every registry state, what save_account_data writes, loaded into a
\* fresh registry, gives the same accounts with the same (id, code, category,
\* balance, mobile credit).
C9_SaveLoadRoundTrip ==
    LET loaded == load_account_data(EmptyDict, <<>>,
                                    save_account_data(accounts, key_order))
    IN  /\ loaded.err = "none"
        /\ DOMAIN loaded.accounts = DOMAIN accounts
        /\ \A k \in DOMAIN accounts :
              Tuple(loaded.accounts[k]) = Tuple(accounts[k])
        /\ loaded.key_order = key_order

\* C9 witness: a registry of two accounts, with a balance and mobile credit
\* above zero, was constructed from the store its predecessor had saved.
C9_Witness ==
    /\ last.op = "DigitalBank"
    /\ file = save_account_data(accounts, key_order)
    /\ Cardinality(DOMAIN accounts) = 2
    /\ \E k \in DOMAIN accounts :
          accounts[k].funds > 0 /\ accounts[k].phone_credit > 0

\* A line load skips: blank, or fewer than 5 fields
SkippedLine(line) == Strip(line) = <<>> \/ Len(Split(Strip(line))) < 5

\* A well-formed line: 5 fields or more, the 4th and 5th of them numbers
WellFormedLine(line) ==
    /\ ~SkippedLine(line)
    /\ ParseFloat(Split(Strip(line))[4]).ok
    /\ ParseFloat(Split(Strip(line))[5]).ok

RecordOf(line) ==
    LET parts == Split(Strip(line))
    IN  <<parts[1], parts[2], parts[3],
          ParseFloat(parts[4]).val, ParseFloat(parts[5]).val>>

\* The records a store of skipped and well-formed lines holds: for each key,
\* the last well-formed line that names it.
RecordsOf(lines) ==
    {RecordOf(lines[i]) : i \in
        {i \in 1..Len(lines) :
            /\ WellFormedLine(lines[i])
            /\ \A j \in (i + 1)..Len(lines) :
                  WellFormedLine(lines[j]) => RecordOf(lines[j])[1] # RecordOf(lines[i])[1]}}

\* C10: the constructor's load of a missing store gives an empty registry
\* without error; blank lines and lines of fewer than 5 fields are skipped
\* without error (the load ends as it does on the store without them), and
\* of a store whose other lines are well-formed every well-formed line is
\* loaded.
C10_LoadBestEffort ==
    last.op = "DigitalBank" =>
        /\ ~file.exists => last.err = "none" /\ DOMAIN accounts = {}
        /\ LET kept == SelectSeq(file.lines, LAMBDA l : ~SkippedLine(l))
               b == DigitalBankAt(Stored(kept))
           IN  /\ last.err = b.last.err
               /\ accounts = b.accounts
               /\ key_order = b.key_order
        /\ (\A i \in 1..Len(file.lines) :
               SkippedLine(file.lines[i]) \/ WellFormedLine(file.lines[i])) =>
                 last.err = "none" /\ Tuples(accounts) = RecordsOf(file.lines)

\* C10 witness: a store with a skipped line and a well-formed line was
\* loaded, without error, into a registry that holds the latter.
C10_Witness ==
    /\ last.op = "DigitalBank" /\ last.err = "none"
    /\ file.exists
    /\ \E i \in 1..Len(file.lines) : SkippedLine(file.lines[i])
    /\ \E i \in 1..Len(file.lines) :
          WellFormedLine(file.lines[i]) /\ RecordOf(file.lines[i]) \in Tuples(accounts)

\* C11: create_new_account(account_type) raises ValueError and changes
\* nothing unless account_type is one of Personal, Business, Student; for
\* one of these it adds exactly one account, under an identifier that was no
\* key of the registry, with funds 0, phone credit 0 and an empty history,
\* leaves every existing account unchanged, saves the registry to the store
\* and returns that identifier with the new account's access code.
C11_CreateNewAccount ==
    [][last'.op = "create_new_account" =>
          LET account_type == last'.args[1]
          IN  IF account_type \notin {Personal, Business, Student}
              THEN /\ last'.err = "ValueError"
                   /\ accounts' = accounts
                   /\ key_order' = key_order
                   /\ file' = file
              ELSE /\ last'.err = "none"
                   /\ Cardinality(DOMAIN accounts' \ DOMAIN accounts) = 1
                   /\ DOMAIN accounts \subseteq DOMAIN accounts'
                   /\ \A k \in DOMAIN accounts : accounts'[k] = accounts[k]
                   /\ \A new_id \in DOMAIN accounts' \ DOMAIN accounts :
                         /\ accounts'[new_id].account_id = new_id
                         /\ accounts'[new_id].category = account_type
                         /\ accounts'[new_id].funds = 0
                         /\ accounts'[new_id].phone_credit = 0
                         /\ accounts'[new_id].transaction_history = <<>>
                         /\ last'.ret = <<new_id, accounts'[new_id].access_code>>
                   /\ file'.exists
                   /\ Len(file'.lines) = Cardinality(DOMAIN accounts')
                   /\ {RecordOf(file'.lines[i]) : i \in 1..Len(file'.lines)}
                         = Tuples(accounts')]_vars

\* C11 witness: an account was created next to an account the registry
\* already held, and both are in the store.
C11_Witness ==
    /\ last.op = "create_new_account" /\ last.err = "none"
    /\ Cardinality(DOMAIN accounts) = 2
    /\ last.ret[1] \in DOMAIN accounts
    /\ Len(file.lines) = 2

\* C12: authenticate(account_id, access_code) returns the account stored
\* under account_id if and only if account_id is a key of the registry and the
\* stored access code equals access_code character for character; otherwise
\* it returns None; it never raises, and in both cases the registry, its
\* accounts and the store are unchanged.
C12_Authenticate ==
    [][last'.op = "authenticate" =>
          LET account_id == last'.args[1]
              access_code == last'.args[2]
              matches == /\ account_id \in DOMAIN accounts
                         /\ Len(accounts[account_id].access_code) = Len(access_code)
                         /\ \A i \in 1..Len(access_code) :
                               accounts[account_id].access_code[i] = access_code[i]
          IN  /\ last'.err = "none"
              /\ matches => last'.ret = {accounts[account_id]}
              /\ ~matches => last'.ret = {}
              /\ accounts' = accounts
              /\ key_order' = key_order
              /\ file' = file]_vars

\* C12 witness: a call with an account's identifier and its access code, the
\* blanks around the code included, returned that account.
C12_Witness ==
    /\ last.op = "authenticate"
    /\ last.args[1] \in DOMAIN accounts
    /\ last.ret = {accounts[last.args[1]]}
    /\ last.args[2] = <<" ">> \o IntStr(CodeHigh) \o <<" ">>

\* C13: in every state reached by loading the store, create_new_account,
\* close_account and the account operations, every account of the registry
\* has the account_id that is the key it is stored under.
C13_KeyIsAccountId ==
    \A k \in DOMAIN accounts : accounts[k].account_id = k

\* C13 witness: a registry holding a loaded account and a created one, after
\* an operation on one of them.
C13_Witness ==
    /\ last.op = "deposit_funds"
    /\ Cardinality(DOMAIN accounts) = 2
    /\ \E k \in DOMAIN accounts :
          accounts[k].recorded # <<>> /\ accounts[k].funds = Half
    /\ \E k \in DOMAIN accounts : accounts[k].funds > TxLimit

\* The calls that save the registry when they have changed it
Persisting ==
    {"create_new_account", "close_account", "remove_account", "deposit_funds",
     "withdraw_funds", "transfer_funds", "mobile_services"}

\* The store f holds one record of exactly five fields for each account of
\* accs, with that account's fields, and no other line.
StoreHolds(f, accs) ==
    /\ f.exists
    /\ Len(f.lines) = Cardinality(DOMAIN accs)
    /\ \A i \in 1..Len(f.lines) :
          WellFormedLine(f.lines[i]) /\ Len(Split(f.lines[i])) = 5
    /\ {RecordOf(f.lines[i]) : i \in 1..Len(f.lines)} = Tuples(accs)

\* C14: after every call of create_new_account, of close_account and of the
\* shell's deposit, withdrawal, transfer and top-up that has changed the
\* registry or an account, the store holds exactly one record for each
\* account now in the registry, with that account's current identifier,
\* access code, category, funds and phone credit, and nothing else.
C14_StoreFollowsRegistry ==
    [][(last'.op \in Persisting /\ (accounts' # accounts \/ key_order' # key_order))
          => StoreHolds(file', accounts')]_vars

\* C14 witness: the shell has transferred funds between two accounts, and
\* the store holds both with their new balances.
C14_Witness ==
    /\ last.op = "transfer_funds"
    /\ last.args[1] # last.args[2]
    /\ \E k \in DOMAIN accounts :
          LET r == accounts[k].recorded
          IN  r # <<>> /\ r[Len(r)].kind = "Transfer from"
    /\ StoreHolds(file, accounts)

----------------------------------------------------------------------------
(* Further claims about the account methods (Spec) *)

\* C15: over any sequence of account operations, an account's phone credit
\* is never negative and never decreases: only a successful add_phone_credit
\* on that account changes it, and that call increases it.
C15_PhoneCreditMonotone ==
    /\ [](\A k \in DOMAIN accounts : accounts[k].phone_credit >= 0)
    /\ [][\A k \in DOMAIN accounts :
             /\ k \in DOMAIN accounts'
             /\ accounts'[k].phone_credit >= accounts[k].phone_credit
             /\ accounts'[k].phone_credit # accounts[k].phone_credit =>
                   /\ last'.op = "add_phone_credit"
                   /\ last'.err = "none"
                   /\ last'.args[1] = k
                   /\ accounts'[k].phone_credit > accounts[k].phone_credit]_vars

\* C15 witness: a top-up on an account that already had phone credit has
\* raised it further.
C15_Witness ==
    /\ last.op = "add_phone_credit" /\ last.err = "none"
    /\ accounts[last.args[1]].phone_credit > last.args[2]
    /\ last.args[2] > 0

\* The sum of the balances of the accounts of the registry
RECURSIVE TotalFunds(_, _)
TotalFunds(accs, order) ==
    IF order = <<>> THEN 0
    ELSE accs[Head(order)].funds + TotalFunds(accs, Tail(order))

----------------------------------------------------------------------------
(* Claim about the statements of send_money (SpecTransfer) *)

\* TRUE iff the step appends a "Transfer to" or "Transfer from" entry
AppendsTransferEntry ==
    \E k \in DOMAIN accounts :
        LET r == accounts'[k].recorded
        IN  /\ Len(r) = Len(accounts[k].recorded) + 1
            /\ r[Len(r)].kind \in {"Transfer to", "Transfer from"}

\* C16: a send_money call between two accounts that returns has appended
\* exactly two entries to each side's log, in this order: on the sender
\* "Withdrawal" then "Transfer to <recipient's id>", on the recipient
\* "Deposit" then "Transfer from <sender's id>"; and when either transfer
\* entry is appended both balances are already updated.
C16_TransferLogOrder ==
    [][(pc.op = "send_money" /\ pc.args[3] # NoneRef
                            /\ pc.args[3] # pc.args[1]) =>
          LET self == pc.args[1]
              amount == pc.args[2]
              recipient == pc.args[3]
              entry == pc.entry
          IN  /\ AppendsTransferEntry =>
                    /\ accounts[self].funds = entry[self].funds - amount
                    /\ accounts[recipient].funds = entry[recipient].funds + amount
                    /\ \A k \in DOMAIN accounts :
                          accounts'[k].funds = accounts[k].funds
              /\ (pc'.op = "idle" /\ last'.err = "none") =>
                    /\ accounts'[self].transaction_history
                          = Logged(Logged(entry[self].transaction_history,
                                Entry("Withdrawal", NoText, amount)),
                                Entry("Transfer to", entry[recipient].account_id,
                                      amount))
                    /\ accounts'[recipient].transaction_history
                          = Logged(Logged(entry[recipient].transaction_history,
                                Entry("Deposit", NoText, amount)),
                                Entry("Transfer from", entry[self].account_id,
                                      amount))
                    /\ Len(accounts'[self].recorded)
                          = Len(entry[self].recorded) + 2
                    /\ Len(accounts'[recipient].recorded)
                          = Len(entry[recipient].recorded) + 2]_vars

\* C16 witness: a transfer between two accounts has returned, statement by
\* statement, the recipient's log ending with Deposit, Transfer from.
C16_Witness ==
    /\ pc = Idle
    /\ last.op = "send_money" /\ last.err = "none"
    /\ last.args[1] # last.args[3]
    /\ LET r == accounts[last.args[3]].recorded
       IN  /\ Len(r) >= 2
           /\ r[Len(r) - 1].kind = "Deposit"
           /\ r[Len(r)].kind = "Transfer from"
           /\ r[Len(r)].party = accounts[last.args[1]].account_id

----------------------------------------------------------------------------
(* Claim about the loop of generate_account_id (SpecGenerate) *)

InLoop == pc.op = "generate_account_id"

\* generate_account_id has returned pc.new_id to create_new_account
LoopReturned == pc.op = "create_new_account" /\ pc.line = 83

FreeCandidate == \E n \in Candidates : AccountIdOf(n) \notin DOMAIN accounts

\* C17: with every candidate drawn again and again, generate_account_id
\* eventually returns whenever some candidate identifier is no key of the
\* registry; the identifier it returns is never a key of the registry; and
\* when every candidate is a key it stays in its loop for ever.
C17_GenerateAccountId ==
    /\ (InLoop /\ FreeCandidate) ~> LoopReturned
    /\ [](LoopReturned => pc.new_id \notin DOMAIN accounts)
    /\ []((InLoop /\ ~FreeCandidate) => [](InLoop /\ ~FreeCandidate))

\* C17 witness: the loop has returned an identifier after drawing a taken
\* one.
C17_Witness ==
    /\ LoopReturned
    /\ pc.collided
    /\ pc.new_id \notin DOMAIN accounts
    /\ DOMAIN accounts # {}

====
